---- MODULE Spec2Model ----
(***************************************************************************)
(* State-machine model of the encoder-rs crate: the debounced Button, the  *)
(* quadrature Rotary decoder, their time-aware wrappers (TimeButton,       *)
(* TimeRotary) and the fusion state machines Encoder and TimeEncoder.      *)
(*                                                                         *)
(* One component is constructed in Init (kind) and then driven by its      *)
(* public operations: update (with the pin levels read on that call, any   *)
(* of which may fail) and handle_press.                                    *)
(***************************************************************************)
EXTENDS Integers, Naturals, Sequences, FiniteSets, TLC

\* ------------------------------------------------------------------------
\* Bounds of the model
\* ------------------------------------------------------------------------

\* largest ROTATION_DIVIDER a component is constructed with
MaxDivider == 4

\* longest clean quadrature run followed by the run ghost
MaxRun == 6

\* last instant the clock of a button or a decoder reaches (milliseconds)
MaxNow == 100

\* last instant the clock of an encoder reaches (milliseconds)
MaxNowEncoder == 50

\* largest acceleration factor a TimeRotary is configured with
MaxAccel == 3

\* largest magnitude of the angle a Rotation is made with
MaxAngle == 20

\* conversions applied to one value
MaxConversions == 2

\* ------------------------------------------------------------------------
\* Program constants
\* ------------------------------------------------------------------------

SINGLE_ROTATION_MS == 100

LIMITED_ROTATION_MS == 20

\* default of the const generic ROTATION_DIVIDER of Rotary
DEFAULT_ROTATION_DIVIDER == 4

\* ------------------------------------------------------------------------
\* Inputs
\* ------------------------------------------------------------------------

\* result of one read of an InputPin: a level, or the pin's error
PinRead == {"high", "low", "err"}

\* the reads of one call to update of a decoder: B is not read ("na") once A failed
RotaryReads ==
    {<<a, b>> \in PinRead \X (PinRead \cup {"na"}) : (b = "na") = (a = "err")}

\* the reads of one call to update of an encoder: A, then B, then the button pin K,
\* none read after a failure
EncoderReads ==
    {<<a, b, k>> \in PinRead \X (PinRead \cup {"na"}) \X (PinRead \cup {"na"}) :
        /\ (b = "na") = (a = "err")
        /\ (k = "na") = (a = "err" \/ b = "err")}

\* const generic ROTATION_DIVIDER: i8; with 0 or a negative one every sub-step
\* reaches the threshold, as with 1
Dividers == (0 - 1)..MaxDivider

\* acceleration: u16
Accels == 0..MaxAccel

\* the clock advances by one of these between two calls
Dts == {0, 50}

Kinds == {"Button", "TimeButton", "Rotary", "TimeRotary", "Encoder", "TimeEncoder",
          "Conversion"}

VARIABLES
    kind,              \* which component was constructed
    divider,           \* its const generic ROTATION_DIVIDER
    inverted,          \* its const generic INVERTED (Button)
    rotary,            \* Rotary / TimeRotary fields
    button,            \* Button / TimeButton fields
    rotated_on_hold,   \* Encoder / TimeEncoder field
    now,               \* last instant handed to update
    op,                \* last operation called
    ret,               \* what it returned
    obs,               \* what the last update sampled and computed on the way
    hist,              \* history of the samples, as seen from outside
    prev,              \* hist before the last operation
    run,               \* clean quadrature run fed since rest
    reads,             \* the pin reads of the last update: <<A, B, K>>
    memo,              \* what an observer of a button remembers of its results
    value              \* the Direction or Rotation value at hand, and its origin

vars == <<kind, divider, inverted, rotary, button, rotated_on_hold, now,
          op, ret, obs, hist, prev, run, reads, memo, value>>

\* ------------------------------------------------------------------------
\* Integer helpers
\* ------------------------------------------------------------------------

RECURSIVE BitOr(_, _)

\* bitwise or of two unsigned values
BitOr(x, y) ==
    IF x = 0 THEN y
    ELSE IF y = 0 THEN x
    ELSE (IF x % 2 = 1 \/ y % 2 = 1 THEN 1 ELSE 0) + 2 * BitOr(x \div 2, y \div 2)

\* an integer wrapped to i8
I8(x) == ((x + 128) % 256) - 128

abs(x) == IF x < 0 THEN 0 - x ELSE x

signum(x) == IF x > 0 THEN 1 ELSE IF x < 0 THEN 0 - 1 ELSE 0

is_high(p) == p = "high"

is_low(p) == p = "low"

\* ------------------------------------------------------------------------
\* Return values
\* ------------------------------------------------------------------------

Ret(tag, rot, dur) == [tag |-> tag, rot |-> rot, dur |-> dur, pin |-> ""]

Err(pin) == [tag |-> "Err", rot |-> 0, dur |-> 0, pin |-> pin]

\* Instant::duration_since of fugit::Instant<u32, 1, 1000> (one tick a
\* millisecond): the elapsed milliseconds; the clock never goes back, so the
\* subtraction never fails
duration_since(self, other) == self - other

\* ------------------------------------------------------------------------
\* Button
\* ------------------------------------------------------------------------

\* update_state without the shift: the previous sample is not moved down
\* update_state shifting the history the wrong way, within the u8
update_state_ShiftLeft(state, pressed) ==
    IF pressed THEN BitOr((state * 2) % 256, 2) ELSE (state * 2) % 256

update_state_NoShift(state, pressed) ==
    IF pressed THEN BitOr(state, 2) ELSE state \div 2

update_state(state, pressed) ==
    IF pressed THEN BitOr(state \div 2, 2) ELSE state \div 2

\* Button::new
ButtonNew == [state |-> 0, handle_press |-> FALSE, press_at |-> 0]

\* handle_press that records nothing
\* handle_press setting the flag whatever the history is
button_handle_press_Always(self) == [self EXCEPT !.handle_press = TRUE]

button_handle_press_Noop(self) == self

\* Button::handle_press
button_handle_press(self) ==
    IF self.state \in {2, 3} THEN [self EXCEPT !.handle_press = TRUE] ELSE self

\* the match with the arm 0b11 answering as the arm 0b10 does
button_match_HeldAsPress(s, handle_press) ==
    IF s = 1 /\ handle_press THEN [handle_press |-> FALSE, act |-> "None"]
    ELSE IF s = 3 /\ handle_press THEN [handle_press |-> handle_press, act |-> "None"]
    ELSE IF s = 0 THEN [handle_press |-> handle_press, act |-> "None"]
    ELSE IF s = 1 THEN [handle_press |-> handle_press, act |-> "Click"]
    ELSE [handle_press |-> handle_press, act |-> "Press"]

\* the match with the acknowledgment kept on the release tick
button_match_KeepAck(s, handle_press) ==
    IF s = 1 /\ handle_press THEN [handle_press |-> handle_press, act |-> "None"]
    ELSE IF s = 3 /\ handle_press THEN [handle_press |-> handle_press, act |-> "None"]
    ELSE IF s = 0 THEN [handle_press |-> handle_press, act |-> "None"]
    ELSE IF s = 1 THEN [handle_press |-> handle_press, act |-> "Click"]
    ELSE IF s = 2 THEN [handle_press |-> handle_press, act |-> "Press"]
    ELSE [handle_press |-> handle_press, act |-> "Held"]

\* the match of Button::update on the new history s
\* the classification reporting nothing on a release
button_match_NoClick(s, handle_press) ==
    IF s = 1 /\ handle_press THEN [handle_press |-> FALSE, act |-> "None"]
    ELSE IF s = 3 /\ handle_press THEN [handle_press |-> handle_press, act |-> "None"]
    ELSE IF s = 0 THEN [handle_press |-> handle_press, act |-> "None"]
    ELSE IF s = 1 THEN [handle_press |-> handle_press, act |-> "None"]
    ELSE IF s = 2 THEN [handle_press |-> handle_press, act |-> "Press"]
    ELSE IF s = 3 THEN [handle_press |-> handle_press, act |-> "Held"]
    ELSE [handle_press |-> handle_press, act |-> "Panic"]

button_match(s, handle_press) ==
    IF s = 1 /\ handle_press THEN [handle_press |-> FALSE, act |-> "None"]
    ELSE IF s = 3 /\ handle_press THEN [handle_press |-> handle_press, act |-> "None"]
    ELSE IF s = 0 THEN [handle_press |-> handle_press, act |-> "None"]
    ELSE IF s = 1 THEN [handle_press |-> handle_press, act |-> "Click"]
    ELSE IF s = 2 THEN [handle_press |-> handle_press, act |-> "Press"]
    ELSE IF s = 3 THEN [handle_press |-> handle_press, act |-> "Held"]
    ELSE [handle_press |-> handle_press, act |-> "Panic"]

\* Button::update with the level k read from k_pin
button_update(self, k, INVERTED) ==
    IF k = "err"
    THEN [self |-> self, err |-> "KPin", act |-> "None", pressed |-> FALSE]
    ELSE LET pressed == (is_high(k) # INVERTED)
             s == update_state(self.state, pressed)
             m == button_match(s, self.handle_press)
         IN [self |-> [self EXCEPT !.state = s, !.handle_press = m.handle_press],
             err |-> "", act |-> m.act, pressed |-> pressed]

\* TimeButton::update
\* TimeButton::update recording the press start on Held ticks too
time_button_update_AnchorOnHeld(self, k, t, INVERTED) ==
    LET r == button_update(self, k, INVERTED)
    IN IF r.err # "" THEN [self |-> r.self, err |-> r.err, act |-> "None",
                           pressed |-> FALSE, dur |-> 0]
       ELSE IF r.act = "Press"
            THEN [self |-> [r.self EXCEPT !.press_at = t], err |-> "", act |-> "Press",
                  pressed |-> r.pressed, dur |-> 0]
       ELSE IF r.act = "Held"
            THEN [self |-> [r.self EXCEPT !.press_at = t], err |-> "", act |-> r.act,
                  pressed |-> r.pressed, dur |-> duration_since(t, r.self.press_at)]
       ELSE IF r.act = "Click"
            THEN [self |-> r.self, err |-> "", act |-> r.act, pressed |-> r.pressed,
                  dur |-> duration_since(t, r.self.press_at)]
       ELSE [self |-> r.self, err |-> "", act |-> r.act, pressed |-> r.pressed, dur |-> 0]

time_button_update(self, k, t, INVERTED) ==
    LET r == button_update(self, k, INVERTED)
    IN IF r.err # "" THEN [self |-> r.self, err |-> r.err, act |-> "None",
                           pressed |-> FALSE, dur |-> 0]
       ELSE IF r.act = "Press"
            THEN [self |-> [r.self EXCEPT !.press_at = t], err |-> "", act |-> "Press",
                  pressed |-> r.pressed, dur |-> 0]
       ELSE IF r.act \in {"Held", "Click"}
            THEN [self |-> r.self, err |-> "", act |-> r.act, pressed |-> r.pressed,
                  dur |-> duration_since(t, r.self.press_at)]
       ELSE [self |-> r.self, err |-> "", act |-> r.act, pressed |-> r.pressed, dur |-> 0]

\* ------------------------------------------------------------------------
\* Rotary
\* ------------------------------------------------------------------------

\* Rotary::new / TimeRotary::with_acceleration
RotaryNew(acceleration) ==
    [state |-> 0, switches |-> 0, last_rot_at |-> <<>>, acceleration |-> acceleration]

\* the new sample pair, placed in bits 3 (A low) and 2 (B low) of the window
pair_bits(a_low, b_low) ==
    IF ~a_low /\ ~b_low THEN 0
    ELSE IF ~a_low /\ b_low THEN 4
    ELSE IF a_low /\ ~b_low THEN 8
    ELSE 12

\* overflow_switches firing only past the divider
overflow_switches_Strict(switches, ROTATION_DIVIDER) ==
    IF abs(switches) > ROTATION_DIVIDER
    THEN [switches |-> 0, rot |-> signum(switches)]
    ELSE [switches |-> switches, rot |-> 0]

\* overflow_switches emitting the step without its sign
overflow_switches_Unsigned(switches, ROTATION_DIVIDER) ==
    IF abs(switches) >= ROTATION_DIVIDER
    THEN [switches |-> 0, rot |-> 1]
    ELSE [switches |-> switches, rot |-> 0]

\* the closure overflow_switches of Rotary::update
overflow_switches(switches, ROTATION_DIVIDER) ==
    IF abs(switches) >= ROTATION_DIVIDER
    THEN [switches |-> 0, rot |-> signum(switches)]
    ELSE [switches |-> switches, rot |-> 0]

\* the transition table of Rotary::update
\* the decoder counting a window without a transition as a forward sub-step
\* the decoder emitting at a home window without clearing the accumulator
rotary_match_HomeKeeps(state, switches, ROTATION_DIVIDER) ==
    IF state \in {1, 7, 14, 8, 6}
    THEN overflow_switches(I8(switches - 1), ROTATION_DIVIDER)
    ELSE IF state \in {2, 11, 13, 4, 9}
    THEN overflow_switches(I8(switches + 1), ROTATION_DIVIDER)
    ELSE IF state \in {0, 3}
    THEN [switches |-> switches, rot |-> signum(switches)]
    ELSE [switches |-> switches, rot |-> 0]

rotary_match_Drift(state, switches, ROTATION_DIVIDER) ==
    IF state \in {1, 7, 14, 8, 6}
    THEN overflow_switches(I8(switches - 1), ROTATION_DIVIDER)
    ELSE IF state \in {2, 11, 13, 4, 9}
    THEN overflow_switches(I8(switches + 1), ROTATION_DIVIDER)
    ELSE IF state \in {0, 3}
    THEN [switches |-> 0, rot |-> signum(switches)]
    ELSE overflow_switches(I8(switches + 1), ROTATION_DIVIDER)

rotary_match(state, switches, ROTATION_DIVIDER) ==
    IF state \in {1, 7, 14, 8, 6}
    THEN overflow_switches(I8(switches - 1), ROTATION_DIVIDER)
    ELSE IF state \in {2, 11, 13, 4, 9}
    THEN overflow_switches(I8(switches + 1), ROTATION_DIVIDER)
    ELSE IF state \in {0, 3}
    THEN [switches |-> 0, rot |-> signum(switches)]
    ELSE [switches |-> switches, rot |-> 0]

\* Rotary::update with the levels a, b read from a_pin, b_pin
rotary_update(self, a, b, ROTATION_DIVIDER) ==
    IF a = "err" THEN [self |-> self, err |-> "APin", rot |-> 0, base |-> 0]
    ELSE IF b = "err" THEN [self |-> self, err |-> "BPin", rot |-> 0, base |-> 0]
    ELSE LET state == BitOr(self.state \div 4, pair_bits(is_low(a), is_low(b)))
             m == rotary_match(state, self.switches, ROTATION_DIVIDER)
         IN [self |-> [self EXCEPT !.state = state, !.switches = m.switches],
             err |-> "", rot |-> m.rot, base |-> m.rot]

\* the multiplier TimeRotary::update applies dt milliseconds after the last step
\* the acceleration factor without the linear interpolation
acceleration_factor_Step(acceleration, dt) ==
    IF dt < SINGLE_ROTATION_MS THEN acceleration ELSE 1

acceleration_factor(acceleration, dt) ==
    IF dt <= LIMITED_ROTATION_MS THEN acceleration
    ELSE IF dt >= SINGLE_ROTATION_MS THEN 1
    ELSE LET low_plus_dt == dt - LIMITED_ROTATION_MS
             size == SINGLE_ROTATION_MS - LIMITED_ROTATION_MS
         IN acceleration - ((acceleration * low_plus_dt) \div size)

\* TimeRotary::update
time_rotary_update(self, a, b, t, ROTATION_DIVIDER) ==
    LET r == rotary_update(self, a, b, ROTATION_DIVIDER)
    IN IF r.err # "" THEN r
       ELSE IF r.rot = 0 THEN r
       ELSE LET last == r.self.last_rot_at
                next == [r.self EXCEPT !.last_rot_at = <<t>>]
            IN IF last = <<>>
               THEN [self |-> next, err |-> "", rot |-> r.rot, base |-> r.rot]
               ELSE [self |-> next, err |-> "", base |-> r.rot,
                     rot |-> r.rot * acceleration_factor(self.acceleration,
                                                         duration_since(t, last[1]))]

\* ------------------------------------------------------------------------
\* Encoder, TimeEncoder
\* ------------------------------------------------------------------------

\* the match reporting every Click, rotated_on_hold or not
\* the composite reporting the rotation of a release tick instead of the Click
encoder_match_ClickRotate(roh, rotation, act) ==
    LET zero == (rotation = 0) IN
    IF act = "None" THEN
        IF ~roh /\ ~zero THEN [roh |-> roh, ret |-> Ret("Rotate", rotation, 0)]
        ELSE IF ~roh /\ zero THEN [roh |-> roh, ret |-> Ret("None", 0, 0)]
        ELSE [roh |-> FALSE, ret |-> Ret("None", 0, 0)]
    ELSE IF act \in {"Press", "Held"} THEN
        IF ~roh /\ ~zero THEN [roh |-> TRUE, ret |-> Ret("RotatePressed", rotation, 0)]
        ELSE IF ~roh /\ zero THEN [roh |-> roh, ret |-> Ret(act, 0, 0)]
        ELSE IF roh /\ ~zero THEN [roh |-> roh, ret |-> Ret("RotatePressed", rotation, 0)]
        ELSE [roh |-> roh, ret |-> Ret("None", 0, 0)]
    ELSE \* Click
        IF ~roh /\ ~zero THEN [roh |-> roh, ret |-> Ret("Rotate", rotation, 0)]
        ELSE IF ~roh THEN [roh |-> roh, ret |-> Ret("Click", 0, 0)]
        ELSE [roh |-> FALSE, ret |-> Ret("None", 0, 0)]

encoder_match_ClickAlways(roh, rotation, act) ==
    LET zero == (rotation = 0) IN
    IF act = "None" THEN
        IF ~roh /\ ~zero THEN [roh |-> roh, ret |-> Ret("Rotate", rotation, 0)]
        ELSE IF ~roh /\ zero THEN [roh |-> roh, ret |-> Ret("None", 0, 0)]
        ELSE [roh |-> FALSE, ret |-> Ret("None", 0, 0)]
    ELSE IF act \in {"Press", "Held"} THEN
        IF ~roh /\ ~zero THEN [roh |-> TRUE, ret |-> Ret("RotatePressed", rotation, 0)]
        ELSE IF ~roh /\ zero THEN [roh |-> roh, ret |-> Ret(act, 0, 0)]
        ELSE IF roh /\ ~zero THEN [roh |-> roh, ret |-> Ret("RotatePressed", rotation, 0)]
        ELSE [roh |-> roh, ret |-> Ret("None", 0, 0)]
    ELSE [roh |-> FALSE, ret |-> Ret("Click", 0, 0)]

\* the match of Encoder::update on (rotated_on_hold, rotation.is_zero(), btn_action)
encoder_match(roh, rotation, act) ==
    LET zero == (rotation = 0) IN
    IF act = "None" THEN
        IF ~roh /\ ~zero THEN [roh |-> roh, ret |-> Ret("Rotate", rotation, 0)]
        ELSE IF ~roh /\ zero THEN [roh |-> roh, ret |-> Ret("None", 0, 0)]
        ELSE [roh |-> FALSE, ret |-> Ret("None", 0, 0)]
    ELSE IF act \in {"Press", "Held"} THEN
        IF ~roh /\ ~zero THEN [roh |-> TRUE, ret |-> Ret("RotatePressed", rotation, 0)]
        ELSE IF ~roh /\ zero THEN [roh |-> roh, ret |-> Ret(act, 0, 0)]
        ELSE IF roh /\ ~zero THEN [roh |-> roh, ret |-> Ret("RotatePressed", rotation, 0)]
        ELSE [roh |-> roh, ret |-> Ret("None", 0, 0)]
    ELSE \* Click
        IF ~roh THEN [roh |-> roh, ret |-> Ret("Click", 0, 0)]
        ELSE [roh |-> FALSE, ret |-> Ret("None", 0, 0)]

\* the match of TimeEncoder::update; dur is the duration of Held(t) / Click(t)
time_encoder_match(roh, rotation, act, dur) ==
    LET zero == (rotation = 0) IN
    IF act = "None" THEN
        IF ~roh /\ ~zero THEN [roh |-> roh, ret |-> Ret("Rotate", rotation, 0)]
        ELSE IF ~roh /\ zero THEN [roh |-> roh, ret |-> Ret("None", 0, 0)]
        ELSE [roh |-> FALSE, ret |-> Ret("None", 0, 0)]
    ELSE IF act = "Press" THEN
        IF ~roh /\ ~zero THEN [roh |-> TRUE, ret |-> Ret("RotatePressed", rotation, 0)]
        ELSE IF ~roh /\ zero THEN [roh |-> roh, ret |-> Ret("Press", 0, 0)]
        ELSE IF roh /\ ~zero THEN [roh |-> roh, ret |-> Ret("RotatePressed", rotation, 0)]
        ELSE [roh |-> roh, ret |-> Ret("None", 0, 0)]
    ELSE IF act = "Held" THEN
        IF ~roh /\ ~zero THEN [roh |-> TRUE, ret |-> Ret("RotatePressed", rotation, 0)]
        ELSE IF ~roh /\ zero THEN [roh |-> roh, ret |-> Ret("Held", 0, dur)]
        ELSE IF roh /\ ~zero THEN [roh |-> roh, ret |-> Ret("RotatePressed", rotation, 0)]
        ELSE [roh |-> roh, ret |-> Ret("None", 0, 0)]
    ELSE \* Click(t)
        IF ~roh THEN [roh |-> roh, ret |-> Ret("Click", 0, dur)]
        ELSE [roh |-> FALSE, ret |-> Ret("None", 0, 0)]

\* the Rotary an Encoder owns is declared Rotary<A, B>: the default divider,
\* whatever ROTATION_DIVIDER the Encoder itself was given
encoder_rotary_divider(ROTATION_DIVIDER) == DEFAULT_ROTATION_DIVIDER

\* the TimeRotary a TimeEncoder owns is TimeRotary<A, B, T, ROTATION_DIVIDER>
time_encoder_rotary_divider(ROTATION_DIVIDER) == ROTATION_DIVIDER

\* Encoder::update
encoder_update(rot, btn, roh, a, b, k, ROTATION_DIVIDER) ==
    LET r == rotary_update(rot, a, b, encoder_rotary_divider(ROTATION_DIVIDER))
    IN IF r.err # ""
       THEN [rotary |-> r.self, button |-> btn, roh |-> roh, ret |-> Err(r.err),
             rot_ok |-> FALSE, btn_ok |-> FALSE, rotation |-> 0, base |-> 0,
             act |-> "na", pressed |-> FALSE]
       ELSE LET u == button_update(btn, k, TRUE)
            IN IF u.err # ""
               THEN [rotary |-> r.self, button |-> u.self, roh |-> roh,
                     ret |-> Err(u.err), rot_ok |-> TRUE, btn_ok |-> FALSE,
                     rotation |-> r.rot, base |-> r.base, act |-> "na",
                     pressed |-> FALSE]
               ELSE LET m == encoder_match(roh, r.rot, u.act)
                    IN [rotary |-> r.self, button |-> u.self, roh |-> m.roh,
                        ret |-> m.ret, rot_ok |-> TRUE, btn_ok |-> TRUE,
                        rotation |-> r.rot, base |-> r.base, act |-> u.act,
                        pressed |-> u.pressed]

\* TimeEncoder::update
time_encoder_update(rot, btn, roh, a, b, k, t, ROTATION_DIVIDER) ==
    LET r == time_rotary_update(rot, a, b, t, time_encoder_rotary_divider(ROTATION_DIVIDER))
    IN IF r.err # ""
       THEN [rotary |-> r.self, button |-> btn, roh |-> roh, ret |-> Err(r.err),
             rot_ok |-> FALSE, btn_ok |-> FALSE, rotation |-> 0, base |-> 0,
             act |-> "na", pressed |-> FALSE]
       ELSE LET u == time_button_update(btn, k, t, TRUE)
            IN IF u.err # ""
               THEN [rotary |-> r.self, button |-> u.self, roh |-> roh,
                     ret |-> Err(u.err), rot_ok |-> TRUE, btn_ok |-> FALSE,
                     rotation |-> r.rot, base |-> r.base, act |-> "na",
                     pressed |-> FALSE]
               ELSE LET m == time_encoder_match(roh, r.rot, u.act, u.dur)
                    IN [rotary |-> r.self, button |-> u.self, roh |-> m.roh,
                        ret |-> m.ret, rot_ok |-> TRUE, btn_ok |-> TRUE,
                        rotation |-> r.rot, base |-> r.base, act |-> u.act,
                        pressed |-> u.pressed]

\* handle_press leaving rotated_on_hold as it is
encoder_handle_press_flag_Keep(roh) == roh

\* Encoder::handle_press: the new rotated_on_hold
encoder_handle_press_flag(roh) == FALSE

\* ------------------------------------------------------------------------
\* History of a run, as an observer of the calls records it
\* ------------------------------------------------------------------------

\* the sampled pair as a number: 2 * a_low + b_low
PairOf(a, b) == (IF is_low(a) THEN 2 ELSE 0) + (IF is_low(b) THEN 1 ELSE 0)

\* one clean phase transition of the quadrature cycle 00 -> 01 -> 11 -> 10 -> 00
FwdPair(p) == CASE p = 0 -> 1 [] p = 1 -> 3 [] p = 3 -> 2 [] OTHER -> 0

\* and of the reverse cycle
BwdPair(p) == CASE p = 0 -> 2 [] p = 2 -> 3 [] p = 3 -> 1 [] OTHER -> 0

NoObs == [rot_ok |-> FALSE, btn_ok |-> FALSE, pair |-> 0, pressed |-> FALSE,
          rotation |-> 0, base |-> 0, btn |-> "na"]

HistInit == [pressed |-> FALSE, acked |-> FALSE, rotated |-> FALSE]

RunInit == [mode |-> "rest", last |-> 0, fwd |-> 0, back |-> 0, sum |-> 0]

\* the run after a sample q of the pins on which the decoder emitted rot:
\* fwd clean forward transitions from rest, then back reverse ones
RunNext(r, q, rot) ==
    IF r.mode \in {"rest", "fwd"} /\ q = FwdPair(r.last) /\ r.fwd < MaxRun
    THEN [mode |-> "fwd", last |-> q, fwd |-> r.fwd + 1, back |-> 0, sum |-> r.sum + rot]
    ELSE IF r.mode \in {"fwd", "back"} /\ q = BwdPair(r.last) /\ r.back < r.fwd
    THEN [mode |-> "back", last |-> q, fwd |-> r.fwd, back |-> r.back + 1,
          sum |-> r.sum + rot]
    ELSE IF q = 0 /\ r.last = 0
    THEN RunInit
    ELSE [mode |-> "off", last |-> q, fwd |-> 0, back |-> 0, sum |-> 0]

\* the history after an update that returned r having observed o
HistNext(h, o, r) ==
    IF o.btn_ok
    THEN [pressed |-> o.pressed,
          acked |-> o.pressed /\ h.acked,
          rotated |-> o.pressed /\ (h.rotated \/ r.tag = "RotatePressed")]
    ELSE h

\* the history after handle_press()
HistAck(h) == [h EXCEPT !.acked = h.pressed \/ h.acked, !.rotated = FALSE]

\* enum Direction
Directions == {"None", "Cw", "Ccw"}

\* the angles a Rotation is made with (Rotation::new takes any i32)
Angles == (0 - MaxAngle)..MaxAngle

\* Direction::to_rotation, as the angle of the Rotation
to_rotation(self) ==
    IF self = "None" THEN 0
    ELSE IF self = "Cw" THEN 1
    ELSE 0 - 1

\* Rotation::direction, of the Rotation with this angle
direction(angle) ==
    IF angle = 0 THEN "None"
    ELSE IF angle >= 1 THEN "Ccw"
    ELSE "Cw"

\* a Direction, a Rotation, and no value yet
DirectionValue(d) == [type |-> "Direction", dir |-> d, angle |-> 0]
RotationValue(angle) == [type |-> "Rotation", dir |-> "None", angle |-> angle]
NoValue == [cur |-> [type |-> "none", dir |-> "None", angle |-> 0],
            from |-> [type |-> "none", dir |-> "None", angle |-> 0],
            n |-> 0]

\* no pin was read
NoReads == <<"na", "na", "na">>

\* anchor: the instant passed to the most recent update that returned Press;
\* last, before: the actions of the last two updates that sampled the button
MemoInit == [anchor |-> <<>>, last |-> "None", before |-> "None"]

\* what the observer of a button remembers after an update passed t that
\* returned act (ok: the pin was read)
MemoNext(m, ok, act, t) ==
    IF ~ok THEN m
    ELSE [anchor |-> IF act = "Press" THEN <<t>> ELSE m.anchor,
          last |-> act, before |-> m.last]

\* the bookkeeping every update shares
Observe(o, r) ==
    /\ op' = "update"
    /\ ret' = r
    /\ obs' = o
    /\ prev' = hist
    /\ hist' = HistNext(hist, o, r)
    /\ run' = IF o.rot_ok THEN RunNext(run, o.pair, o.base) ELSE run
    /\ UNCHANGED <<kind, divider, inverted>>

\* the bookkeeping of handle_press()
ObserveAck ==
    /\ op' = "handle_press"
    /\ ret' = Ret("Unit", 0, 0)
    /\ obs' = NoObs
    /\ prev' = hist
    /\ hist' = HistAck(hist)
    /\ UNCHANGED <<kind, divider, inverted, run, now, rotary>>

\* the instants a caller may pass next: the clock never goes back
Instants ==
    {t \in {now + d : d \in Dts} :
        t <= (IF kind = "TimeEncoder" THEN MaxNowEncoder ELSE MaxNow)}

\* ------------------------------------------------------------------------
\* Construction
\* ------------------------------------------------------------------------

Init ==
    /\ kind \in Kinds
    /\ divider \in (IF kind \in {"Button", "TimeButton", "Conversion"}
                    THEN {DEFAULT_ROTATION_DIVIDER} ELSE Dividers)
    /\ inverted \in (IF kind \in {"Button", "TimeButton"} THEN BOOLEAN
                     ELSE IF kind \in {"Encoder", "TimeEncoder"} THEN {TRUE}
                     ELSE {FALSE})
    /\ \E acc \in (IF kind = "TimeRotary" THEN Accels ELSE {1}) :
           rotary = RotaryNew(acc)
    /\ button = ButtonNew
    /\ rotated_on_hold = FALSE
    /\ now = 0
    /\ op = "new"
    /\ ret = Ret("Unit", 0, 0)
    /\ obs = NoObs
    /\ hist = HistInit
    /\ prev = HistInit
    /\ run = RunInit
    /\ reads = NoReads
    /\ memo = MemoInit
    /\ value = NoValue

\* ------------------------------------------------------------------------
\* Operations
\* ------------------------------------------------------------------------

ButtonUpdate ==
    /\ UNCHANGED value
    /\ kind = "Button"
    /\ \E k \in PinRead :
        \E u \in {button_update(button, k, inverted)} :
           /\ button' = u.self
           /\ Observe([NoObs EXCEPT !.btn_ok = (u.err = ""), !.pressed = u.pressed,
                                    !.btn = IF u.err = "" THEN u.act ELSE "na"],
                      IF u.err # "" THEN Err(u.err) ELSE Ret(u.act, 0, 0))
           /\ reads' = <<"na", "na", k>>
           /\ memo' = MemoNext(memo, u.err = "", u.act, now)
    /\ UNCHANGED <<rotary, rotated_on_hold, now>>

ButtonHandlePress ==
    /\ UNCHANGED value
    /\ kind = "Button"
    /\ button' = button_handle_press(button)
    /\ ObserveAck
    /\ reads' = NoReads
    /\ UNCHANGED <<rotated_on_hold, memo>>

TimeButtonUpdate ==
    /\ UNCHANGED value
    /\ kind = "TimeButton"
    /\ \E k \in PinRead, t \in Instants :
        \E u \in {time_button_update(button, k, t, inverted)} :
           /\ button' = u.self
           /\ now' = t
           /\ Observe([NoObs EXCEPT !.btn_ok = (u.err = ""), !.pressed = u.pressed,
                                    !.btn = IF u.err = "" THEN u.act ELSE "na"],
                      IF u.err # "" THEN Err(u.err) ELSE Ret(u.act, 0, u.dur))
           /\ reads' = <<"na", "na", k>>
           /\ memo' = MemoNext(memo, u.err = "", u.act, t)
    /\ UNCHANGED <<rotary, rotated_on_hold>>

TimeButtonHandlePress ==
    /\ UNCHANGED value
    /\ kind = "TimeButton"
    /\ button' = button_handle_press(button)
    /\ ObserveAck
    /\ reads' = NoReads
    /\ UNCHANGED <<rotated_on_hold, memo>>

RotaryUpdate ==
    /\ UNCHANGED value
    /\ kind = "Rotary"
    /\ \E <<a, b>> \in RotaryReads :
        \E r \in {rotary_update(rotary, a, b, divider)} :
           /\ rotary' = r.self
           /\ Observe([NoObs EXCEPT !.rot_ok = (r.err = ""),
                                    !.pair = IF r.err = "" THEN PairOf(a, b) ELSE 0,
                                    !.rotation = r.rot, !.base = r.base],
                      IF r.err # "" THEN Err(r.err) ELSE Ret("Rotation", r.rot, 0))
           /\ reads' = <<a, b, "na">>
    /\ UNCHANGED <<button, rotated_on_hold, now, memo>>

TimeRotaryUpdate ==
    /\ UNCHANGED value
    /\ kind = "TimeRotary"
    /\ \E <<a, b>> \in RotaryReads, t \in Instants :
        \E r \in {time_rotary_update(rotary, a, b, t, divider)} :
           /\ rotary' = r.self
           /\ now' = t
           /\ Observe([NoObs EXCEPT !.rot_ok = (r.err = ""),
                                    !.pair = IF r.err = "" THEN PairOf(a, b) ELSE 0,
                                    !.rotation = r.rot, !.base = r.base],
                      IF r.err # "" THEN Err(r.err) ELSE Ret("Rotation", r.rot, 0))
           /\ reads' = <<a, b, "na">>
    /\ UNCHANGED <<button, rotated_on_hold, memo>>

\* TimeRotary::set_acceleration
TimeRotarySetAcceleration ==
    /\ UNCHANGED value
    /\ kind = "TimeRotary"
    /\ \E acc \in Accels :
        /\ acc # rotary.acceleration
        /\ rotary' = [rotary EXCEPT !.acceleration = acc]
    /\ op' = "set_acceleration"
    /\ ret' = Ret("Unit", 0, 0)
    /\ obs' = NoObs
    /\ prev' = hist
    /\ reads' = NoReads
    /\ UNCHANGED <<kind, divider, inverted, button, rotated_on_hold, now, hist, run,
                   memo>>

EncoderUpdate ==
    /\ UNCHANGED value
    /\ kind = "Encoder"
    /\ \E <<a, b, k>> \in EncoderReads :
        \E e \in {encoder_update(rotary, button, rotated_on_hold, a, b, k, divider)} :
           /\ rotary' = e.rotary
           /\ button' = e.button
           /\ rotated_on_hold' = e.roh
           /\ Observe([rot_ok |-> e.rot_ok, btn_ok |-> e.btn_ok,
                       pair |-> IF e.rot_ok THEN PairOf(a, b) ELSE 0,
                       pressed |-> e.pressed, rotation |-> e.rotation,
                       base |-> e.base, btn |-> e.act],
                      e.ret)
           /\ reads' = <<a, b, k>>
    /\ UNCHANGED <<now, memo>>

EncoderHandlePress ==
    /\ UNCHANGED value
    /\ kind = "Encoder"
    /\ rotated_on_hold' = encoder_handle_press_flag(rotated_on_hold)
    /\ button' = button_handle_press(button)
    /\ ObserveAck
    /\ reads' = NoReads
    /\ UNCHANGED memo

TimeEncoderUpdate ==
    /\ UNCHANGED value
    /\ kind = "TimeEncoder"
    /\ \E <<a, b, k>> \in EncoderReads, t \in Instants :
        \E e \in {time_encoder_update(rotary, button, rotated_on_hold, a, b, k, t,
                                       divider)} :
           /\ rotary' = e.rotary
           /\ button' = e.button
           /\ rotated_on_hold' = e.roh
           /\ now' = t
           /\ Observe([rot_ok |-> e.rot_ok, btn_ok |-> e.btn_ok,
                       pair |-> IF e.rot_ok THEN PairOf(a, b) ELSE 0,
                       pressed |-> e.pressed, rotation |-> e.rotation,
                       base |-> e.base, btn |-> e.act],
                      e.ret)
           /\ reads' = <<a, b, k>>
    /\ UNCHANGED memo

TimeEncoderHandlePress ==
    /\ UNCHANGED value
    /\ kind = "TimeEncoder"
    /\ rotated_on_hold' = encoder_handle_press_flag(rotated_on_hold)
    /\ button' = button_handle_press(button)
    /\ ObserveAck
    /\ reads' = NoReads
    /\ UNCHANGED memo

\* ------------------------------------------------------------------------
\* Specifications
\* ------------------------------------------------------------------------

\* everything but the value at hand and the operation
others == <<kind, divider, inverted, rotary, button, rotated_on_hold, now,
            ret, obs, hist, prev, run, reads, memo>>

\* a Direction is written down
DirectionPick ==
    /\ kind = "Conversion"
    /\ \E d \in Directions :
           value' = [cur |-> DirectionValue(d), from |-> DirectionValue(d), n |-> 0]
    /\ op' = "direction"
    /\ UNCHANGED others

\* Rotation::new
RotationNew ==
    /\ kind = "Conversion"
    /\ \E angle \in Angles :
           value' = [cur |-> RotationValue(angle), from |-> RotationValue(angle), n |-> 0]
    /\ op' = "rotation"
    /\ UNCHANGED others

\* Direction::to_rotation on the value at hand
DirectionToRotation ==
    /\ kind = "Conversion"
    /\ value.cur.type = "Direction"
    /\ value.n < MaxConversions
    /\ value' = [value EXCEPT !.cur = RotationValue(to_rotation(value.cur.dir)),
                              !.n = @ + 1]
    /\ op' = "to_rotation"
    /\ UNCHANGED others

\* Rotation::direction on the value at hand
RotationDirection ==
    /\ kind = "Conversion"
    /\ value.cur.type = "Rotation"
    /\ value.n < MaxConversions
    /\ value' = [value EXCEPT !.cur = DirectionValue(direction(value.cur.angle)),
                              !.n = @ + 1]
    /\ op' = "direction"
    /\ UNCHANGED others

Next ==
    \/ DirectionPick
    \/ RotationNew
    \/ DirectionToRotation
    \/ RotationDirection
    \/ ButtonUpdate
    \/ ButtonHandlePress
    \/ TimeButtonUpdate
    \/ TimeButtonHandlePress
    \/ RotaryUpdate
    \/ TimeRotaryUpdate
    \/ TimeRotarySetAcceleration
    \/ EncoderUpdate
    \/ EncoderHandlePress
    \/ TimeEncoderUpdate
    \/ TimeEncoderHandlePress

Spec == Init /\ [][Next]_vars

\* the buttons alone
InitButton == Init /\ kind \in {"Button", "TimeButton"}

NextButton ==
    \/ ButtonUpdate
    \/ ButtonHandlePress
    \/ TimeButtonUpdate
    \/ TimeButtonHandlePress

SpecButton == InitButton /\ [][NextButton]_vars

\* the decoders alone
InitRotary == Init /\ kind \in {"Rotary", "TimeRotary"}

NextRotary ==
    \/ RotaryUpdate
    \/ TimeRotaryUpdate
    \/ TimeRotarySetAcceleration

SpecRotary == InitRotary /\ [][NextRotary]_vars

\* the fusion state machines
InitEncoder == Init /\ kind \in {"Encoder", "TimeEncoder"}

NextEncoder ==
    \/ EncoderUpdate
    \/ EncoderHandlePress
    \/ TimeEncoderUpdate
    \/ TimeEncoderHandlePress

SpecEncoder == InitEncoder /\ [][NextEncoder]_vars

\* the Direction and Rotation values alone
InitConversion == Init /\ kind = "Conversion"

NextConversion ==
    \/ DirectionPick
    \/ RotationNew
    \/ DirectionToRotation
    \/ RotationDirection

SpecConversion == InitConversion /\ [][NextConversion]_vars

\* ------------------------------------------------------------------------
\* Properties
\* ------------------------------------------------------------------------

\* the last operation was an update that sampled the button
Sampled == op = "update" /\ obs.btn_ok

\* the last operation was an update that sampled the decoder's pins
Turned == op = "update" /\ obs.rot_ok

\* the classification of two consecutive samples
Classify(before, current) ==
    IF ~before /\ ~current THEN "None"
    ELSE IF before /\ ~current THEN "Click"
    ELSE IF ~before /\ current THEN "Press"
    ELSE "Held"

\* C1: with no acknowledgment outstanding, Button.update returns the
\* classification of the previous and the current sample (released, released)
\* -> None, (pressed, released) -> Click, (released, pressed) -> Press,
\* (pressed, pressed) -> Held; before the first update the previous sample
\* counts as released.
C1_Classification ==
    (Sampled /\ ~prev.acked) =>
        /\ obs.btn = Classify(prev.pressed, obs.pressed)
        /\ ret.tag = obs.btn

\* C1 witness: a Button sampled pressed then released, unacknowledged: Click.
C1_Witness ==
    /\ kind = "Button"
    /\ Sampled /\ ~prev.acked
    /\ prev.pressed /\ ~obs.pressed
    /\ ret.tag = "Click"

\* C2, as stated: the second of two consecutive pressed samples always returns
\* Held, and Press is never returned unless the previous sample was released.
C2_Original ==
    Sampled =>
        /\ (prev.pressed /\ obs.pressed => obs.btn = "Held")
        /\ (obs.btn = "Press" => ~prev.pressed)

\* C2, amended: the second of two consecutive pressed samples returns Held,
\* or None when handle_press() acknowledged this press; and Press is never
\* returned unless the previous sample was released.
C2_HeldUnlessAcked ==
    Sampled =>
        /\ (prev.pressed /\ obs.pressed =>
                obs.btn = (IF prev.acked THEN "None" ELSE "Held"))
        /\ (obs.btn = "Press" => ~prev.pressed)

\* C2 witness: two consecutive pressed samples, the second returning Held.
C2_Witness ==
    /\ Sampled
    /\ prev.pressed /\ obs.pressed
    /\ obs.btn = "Held"

\* C3: a press and its release return Press then Click; after handle_press()
\* during a press (the flag is set only then) every update of that press
\* returns None, the release tick included, the flag is cleared on that
\* release tick and not before, and the next press and release return Press
\* and Click again.
C3_Acknowledge ==
    /\ button.handle_press = hist.acked
    /\ Sampled =>
        /\ (prev.acked => obs.btn = "None")
        /\ (~prev.pressed /\ obs.pressed => obs.btn = "Press")
        /\ (~prev.acked /\ prev.pressed /\ ~obs.pressed => obs.btn = "Click")
        /\ (button.handle_press = (prev.acked /\ obs.pressed))

\* C3 witness: the release tick of an acknowledged press: None, flag cleared.
C3_Witness ==
    /\ Sampled
    /\ prev.acked /\ ~obs.pressed
    /\ obs.btn = "None"
    /\ ~button.handle_press

\* C4: a Rotary with divider d >= 1 fed d clean forward transitions from rest
\* returns +1 on the last of them and 0 on the others; so up to d/2 of them
\* return 0 only.
C4_ForwardRun ==
    (kind = "Rotary" /\ Turned /\ run.mode = "fwd" /\ run.fwd <= divider) =>
        /\ ret.rot = (IF run.fwd = divider THEN 1 ELSE 0)
        /\ run.sum = (IF run.fwd = divider THEN 1 ELSE 0)
        /\ (2 * run.fwd <= divider => run.sum = 0)

\* C4 witness: the d-th forward transition of a Rotary with d >= 2 returned +1.
C4_Witness ==
    /\ kind = "Rotary" /\ Turned
    /\ divider >= 2
    /\ run.mode = "fwd" /\ run.fwd = divider
    /\ ret.rot = 1

\* C5: n clean forward transitions from rest followed at once by the n
\* reverse transitions leave the accumulator of a Rotary at 0 and the sum of
\* the steps it returned at 0.
C5_RoundTrip ==
    (kind = "Rotary" /\ Turned /\ run.mode = "back" /\ run.back = run.fwd) =>
        /\ rotary.switches = 0
        /\ run.sum = 0

\* C5 witness: a round trip long enough for a step to fire in each direction.
C5_Witness ==
    /\ kind = "Rotary" /\ Turned
    /\ run.mode = "back" /\ run.back = run.fwd
    /\ run.fwd > divider
    /\ ret.rot = 0 - 1

\* C6, as stated: the d-th clean forward transition from rest fed to an
\* Encoder with ROTATION_DIVIDER = d, the button released, is reported as a
\* nonzero rotation.
C6_Original ==
    (kind = "Encoder" /\ Sampled /\ ~prev.pressed /\ ~obs.pressed
        /\ run.mode = "fwd" /\ run.fwd = divider) =>
        /\ ret.tag \in {"Rotate", "RotatePressed"}
        /\ ret.rot # 0

C8_IdleRotate ==
    (Sampled /\ obs.btn = "None" /\ obs.rotation # 0) =>
        /\ ret.tag = "Rotate" /\ ret.rot = obs.rotation
        /\ ~rotated_on_hold

\* C8 witness: a rotation step with the button idle, returned as Rotate.
C8_Witness ==
    /\ Sampled
    /\ obs.btn = "None" /\ obs.rotation # 0
    /\ ret.tag = "Rotate"

\* C9, as stated: a nonzero rotation on a tick where the button is sampled as
\* pressed is returned as RotatePressed.
C9_Original ==
    (Sampled /\ obs.pressed /\ obs.rotation # 0) => ret.tag = "RotatePressed"

\* C10: handle_press() of an encoder clears rotated_on_hold and acknowledges
\* the press to its button (the button's flag is set exactly while a press is
\* acknowledged); for the rest of an acknowledged press, the release tick
\* included, update returns no Press, Held or Click; and the next press is
\* reported as any press is, Press or RotatePressed.
C10_HandlePress ==
    /\ (op = "handle_press" =>
            /\ ~rotated_on_hold
            /\ button.handle_press = (prev.pressed \/ prev.acked))
    /\ (Sampled /\ prev.acked => ret.tag \notin {"Press", "Held", "Click"})
    /\ (Sampled /\ ~prev.pressed /\ obs.pressed =>
            ret.tag = (IF obs.rotation = 0 THEN "Press" ELSE "RotatePressed"))

\* C10 witness: the release tick of a press acknowledged through the encoder.
C10_Witness ==
    /\ kind \in {"Encoder", "TimeEncoder"}
    /\ Sampled
    /\ prev.acked /\ ~obs.pressed
    /\ ret.tag = "None"

\* C11, as stated: when update returns a pin-read error, the component is as
\* it was before the call: button history and acknowledge flag, decoder window
\* and accumulator, rotated_on_hold and the time anchors are all unchanged.
C11_Original ==
    [][(op' = "update" /\ ret'.tag = "Err") =>
            /\ rotary' = rotary
            /\ button' = button
            /\ rotated_on_hold' = rotated_on_hold]_vars

\* the pin an update fails on, given what its reads returned in the order A,
\* B, K ("" when every read succeeded)
FirstFailed(r) ==
    IF r[1] = "err" THEN "APin"
    ELSE IF r[2] = "err" THEN "BPin"
    ELSE IF r[3] = "err" THEN "KPin"
    ELSE ""

\* C12: an update returns an error exactly when one of its pin reads failed,
\* and the error names that pin (A before B before K); no other operation
\* returns an error; and the button history is always one of 0..3, so the
\* unreachable!() arm of the button classification is never executed.
C12_ErrorOrigin ==
    /\ button.state \in 0..3
    /\ obs.btn # "Panic" /\ ret.tag # "Panic"
    /\ (op # "update" => ret.tag # "Err")
    /\ (op = "update" =>
            /\ (ret.tag = "Err") = (FirstFailed(reads) # "")
            /\ (ret.tag = "Err" => ret.pin = FirstFailed(reads)))

\* C12 witness: an update that read A and B and failed on K, with a button
\* history that has both bits set.
C12_Witness ==
    /\ op = "update"
    /\ reads[1] # "err" /\ reads[2] # "err" /\ reads[3] = "err"
    /\ ret.tag = "Err" /\ ret.pin = "KPin"
    /\ button.state = 3

\* the multiplier of a nonzero step taken at instant t, given the instant of
\* the previous nonzero step (<<>> when there was none) and the factor
Multiplier(last, acceleration, t) ==
    IF last = <<>> THEN 1
    ELSE LET dt == t - last[1]
         IN IF dt <= 20 THEN acceleration
            ELSE IF dt >= 100 THEN 1
            ELSE acceleration - ((acceleration * (dt - 20)) \div 80)

\* C13: TimeRotary.update(now) passes a zero decoder step through as zero and
\* leaves the previous-step instant unchanged; for a nonzero step it records
\* now as the previous-step instant and returns the step times m, where m = 1
\* on the first nonzero step and otherwise, with dt the time since the
\* previous nonzero step, m = acceleration if dt <= 20 ms, m = 1 if
\* dt >= 100 ms, and m = acceleration - (acceleration * (dt - 20)) / 80 in
\* integer division in between.
C13_Acceleration ==
    [][(kind = "TimeRotary" /\ op' = "update" /\ obs'.rot_ok) =>
            IF obs'.base = 0
            THEN /\ ret'.rot = 0
                 /\ rotary'.last_rot_at = rotary.last_rot_at
            ELSE /\ rotary'.last_rot_at = <<now'>>
                 /\ ret'.rot = obs'.base * Multiplier(rotary.last_rot_at,
                                                     rotary.acceleration, now')]_vars

\* C13 witness: a nonzero step 50 ms after the previous one with factor 3,
\* returned twice over (3 - (3 * 30) / 80 = 2).
C13_Witness ==
    /\ kind = "TimeRotary"
    /\ Turned
    /\ obs.base # 0
    /\ rotary.acceleration = 3
    /\ ret.rot = 2 * obs.base

\* C14, as stated: for every acceleration factor (any u16) and every dt the
\* multiplier of a nonzero step that follows an earlier one lies between 1 and
\* the factor and does not increase with dt, and so a nonzero decoder step is
\* returned as a nonzero rotation of the same sign.
C14_Original ==
    [][(/\ kind = "TimeRotary" /\ op' = "update" /\ obs'.rot_ok
        /\ obs'.base # 0 /\ rotary.last_rot_at # <<>>) =>
            /\ 1 <= ret'.rot * obs'.base
            /\ ret'.rot * obs'.base <= rotary.acceleration
            /\ \A dt \in 0..SINGLE_ROTATION_MS :
                   acceleration_factor(rotary.acceleration, dt + 1)
                       <= acceleration_factor(rotary.acceleration, dt)
            /\ ret'.rot # 0
            /\ signum(ret'.rot) = signum(obs'.base)]_vars

\* C15: TimeButton.update(now) records now as the press start on every tick
\* that returns Press; every Held(d) and Click(d) carries d = now minus the
\* instant passed to the most recent update that returned Press; None and
\* Press carry no duration; and the press start only ever changes on a Press
\* tick (it is always the instant of the most recent Press, ZERO before the
\* first one).
C15_PressStart ==
    kind = "TimeButton" =>
        /\ button.press_at = (IF memo.anchor = <<>> THEN 0 ELSE memo.anchor[1])
        /\ (Sampled =>
                /\ (ret.tag = "Press" => button.press_at = now /\ ret.dur = 0)
                /\ (ret.tag \in {"Held", "Click"} =>
                        /\ memo.anchor # <<>>
                        /\ ret.dur = now - memo.anchor[1])
                /\ (ret.tag = "None" => ret.dur = 0))

\* C15 witness: a Click 100 ms after its Press, with a Held tick in between.
C15_Witness ==
    /\ kind = "TimeButton"
    /\ Sampled
    /\ ret.tag = "Click" /\ ret.dur = 100
    /\ memo.before = "Held"
    /\ button.press_at = 0

\* an Encoder at rest after an update: the button history shows the same
\* sample twice (held, 0b11, or released, 0b00), the decoder window shows the
\* same phase pair twice (no transition), and the update returned Held or None
Stable ==
    /\ kind = "Encoder"
    /\ Sampled
    /\ button.state \in {0, 3}
    /\ rotary.state \in {0, 5, 10, 15}
    /\ ret.tag \in {"Held", "None"}

\* C16: once an Encoder is stable (button held with no rotation, or released
\* with no rotation), an update that reads the same (K, A, B) samples again
\* returns the same result (Held, or None) and leaves the button history and
\* flag, the decoder window, the accumulator and rotated_on_hold unchanged.
C16_Idempotent ==
    [][(Stable /\ op' = "update" /\ reads' = reads) =>
            /\ ret' = ret
            /\ button' = button
            /\ rotary' = rotary
            /\ rotated_on_hold' = rotated_on_hold]_vars

\* C16 witness: a stable Encoder that returned Held, its decoder resting
\* between detents with a nonzero accumulator.
C16_Witness ==
    /\ Stable
    /\ prev.pressed /\ obs.pressed
    /\ button.state = 3 /\ ret.tag = "Held"
    /\ rotary.state = 5 /\ rotary.switches # 0

\* C17, as stated: Button.update returns no Click for a release that follows
\* a tick on which Held was returned.
C17_Original ==
    (/\ kind \in {"Button", "TimeButton"}
     /\ Sampled
     /\ memo.before = "Held") => ret.tag # "Click"

\* C17, amended: Button.update reports Click only on the release tick of a
\* press (the sample before pressed, this one released, the tick before
\* having returned Press or Held), and the release that follows a tick on
\* which Held was returned does return Click unless handle_press()
\* acknowledged the press in between.
C17_ClickOnRelease ==
    (kind \in {"Button", "TimeButton"} /\ Sampled) =>
        /\ (ret.tag = "Click" =>
                /\ prev.pressed /\ ~obs.pressed
                /\ memo.before \in {"Press", "Held"})
        /\ (memo.before = "Held" /\ ~obs.pressed /\ ~prev.acked => ret.tag = "Click")

\* C17 witness: a Click on the tick after a tick that returned Held.
C17_Witness ==
    /\ kind = "Button"
    /\ Sampled
    /\ memo.before = "Held"
    /\ ret.tag = "Click"

\* C18: after every Rotary.update with a positive divider the accumulator is
\* strictly inside the divider, |switches| < divider; it is 0 after a tick on
\* which a step fires or a home window (0b0000, 0b0011) is seen; on any other
\* tick it changes by at most 1; and the four windows 0b0101, 0b1010, 0b1111
\* and 0b1100 leave it unchanged and emit no step.
C18_Accumulator ==
    [][(/\ kind \in {"Rotary", "TimeRotary"} /\ divider >= 1
        /\ op' = "update" /\ obs'.rot_ok) =>
            /\ abs(rotary'.switches) < divider
            /\ (obs'.base # 0 \/ rotary'.state \in {0, 3} => rotary'.switches = 0)
            /\ (obs'.base = 0 /\ rotary'.state \notin {0, 3} =>
                    abs(rotary'.switches - rotary.switches) <= 1)
            /\ (rotary'.state \in {5, 10, 15, 12} =>
                    /\ rotary'.switches = rotary.switches
                    /\ obs'.base = 0)]_vars

\* C18 witness: a home window 0b0000 that fires the step left over in the
\* accumulator and clears it, with divider 4.
C18_Witness ==
    /\ kind = "Rotary" /\ divider = 4
    /\ Turned
    /\ rotary.state = 0
    /\ obs.base # 0
    /\ rotary.switches = 0

\* C19: in every reachable state of an Encoder or TimeEncoder (any
\* interleaving of update, failed update and handle_press), rotated_on_hold
\* implies that the button history is 0b10 or 0b11 and the acknowledge flag is
\* false, and the acknowledge flag is set only while the history is 0b10 or
\* 0b11; so no update finds rotated_on_hold set and the button reporting None
\* or Press: the arms (true, _, None) and (true, _, Press) are never taken.
C19_HoldFlags ==
    /\ [](/\ (rotated_on_hold => button.state \in {2, 3} /\ ~button.handle_press)
          /\ (button.handle_press => button.state \in {2, 3}))
    /\ [][(rotated_on_hold /\ op' = "update" /\ obs'.btn_ok) =>
                obs'.btn \notin {"None", "Press"}]_vars

\* C19 witness: a held tick after a rotation while held, taken with
\* rotated_on_hold set (the arm (true, true, Held)).
C19_Witness ==
    /\ kind \in {"Encoder", "TimeEncoder"}
    /\ Sampled
    /\ rotated_on_hold /\ prev.rotated
    /\ button.state = 3 /\ obs.btn = "Held" /\ obs.rotation = 0
    /\ ret.tag = "None"

\* C20: when the decoder emits a nonzero step on the tick on which the button
\* reports Click, with no rotation reported during that press, the update of
\* an Encoder or TimeEncoder returns Click and the step is discarded: it is
\* not reported on this tick, and not on a later one either, since the
\* decoder's accumulator is back at 0 and an update only ever reports the
\* rotation the decoder emitted on that same tick.
C20_ClickEatsStep ==
    (kind \in {"Encoder", "TimeEncoder"} /\ Sampled) =>
        /\ (obs.btn = "Click" /\ obs.rotation # 0 /\ ~prev.rotated =>
                /\ ret.tag = "Click" /\ ret.rot = 0
                /\ rotary.switches = 0
                /\ ~rotated_on_hold)
        /\ (ret.tag \in {"Rotate", "RotatePressed"} =>
                obs.rotation # 0 /\ ret.rot = obs.rotation)
        /\ (ret.tag \notin {"Rotate", "RotatePressed"} => ret.rot = 0)

\* C20 witness: a release tick on which the decoder fired and Click was
\* returned.
C20_Witness ==
    /\ kind \in {"Encoder", "TimeEncoder"}
    /\ Sampled
    /\ obs.btn = "Click" /\ obs.rotation # 0 /\ ~prev.rotated
    /\ ret.tag = "Click"

\* C21, as stated: the conversions are mutually consistent: for every
\* Direction d, d.to_rotation().direction() = d, and for every Rotation r of
\* angle -1, 0 or 1, r.direction().to_rotation() = r.
C21_Original ==
    (/\ value.n = 2
     /\ (value.from.type = "Direction" \/ value.from.angle \in {0 - 1, 0, 1})) =>
        value.cur = value.from

====
